---- MODULE Spec2Model ----
(***************************************************************************)
(* Contacts directory: the contact store, the contact queries (filtered,   *)
(* ordered, paginated listing and the upcoming-birthdays listing) and the  *)
(* service layer above them.                                               *)
(*                                                                         *)
(* Strings are sequences of one-character strings, dates are <<y, m, d>>,  *)
(* an optional value is <<>> (None) or <<v>>.                              *)
(***************************************************************************)
EXTENDS Integers, Sequences, FiniteSets, TLC

VARIABLES contacts, next_id, commits, responses, pending, users, registrations

vars == <<contacts, next_id, commits, responses, pending, users, registrations>>

\* ------------------------------------------------------------------ bounds

\* At most this many commits (create, update, delete) in one run.
MaxCommits == 3

\* ------------------------------------------------------- optional values

None == <<>>

Some(v) == <<v>>

\* Python truthiness of an optional string: None and "" are both falsy.
TruthyStr(o) == o # None /\ o[1] # <<>>

\* Python truthiness of an optional integer: None and 0 are both falsy.
TruthyInt(o) == o # None /\ o[1] # 0

\* Python truthiness of an optional boolean: None and False are both falsy.
TruthyBool(o) == o # None /\ o[1]

Min(a, b) == IF a <= b THEN a ELSE b

Max(a, b) == IF a >= b THEN a ELSE b

Range(s) == {s[i] : i \in 1..Len(s)}

\* ----------------------------------------------------------------- strings

\* Code points of the characters of the model's alphabet.
CharCode(c) ==
    CASE c = "%" -> 37
      [] c = "@" -> 64
      [] c = "A" -> 65
      [] c = "B" -> 66
      [] c = "_" -> 95
      [] c = "a" -> 97
      [] c = "b" -> 98

\* str.lower() / SQL lower() on one character.
LowerChar(c) ==
    CASE c = "A" -> "a"
      [] c = "B" -> "b"
      [] c = "R" -> "r"
      [] c = "T" -> "t"
      [] OTHER -> c

Lower(s) == [i \in 1..Len(s) |-> LowerChar(s[i])]

RECURSIVE StrCmp(_, _)
\* Lexicographic comparison of two strings by code point: -1, 0 or 1.
StrCmp(s, t) ==
    IF s = <<>> /\ t = <<>> THEN 0
    ELSE IF s = <<>> THEN -1
    ELSE IF t = <<>> THEN 1
    ELSE IF CharCode(Head(s)) < CharCode(Head(t)) THEN -1
    ELSE IF CharCode(Head(s)) > CharCode(Head(t)) THEN 1
    ELSE StrCmp(Tail(s), Tail(t))

RECURSIVE LikeMatch(_, _)
\* SQL ILIKE: % matches any run of characters, _ any one character, every
\* other pattern character itself, ignoring case.
LikeMatch(s, p) ==
    IF p = <<>> THEN s = <<>>
    ELSE IF Head(p) = "%"
        THEN LikeMatch(s, Tail(p)) \/ (s # <<>> /\ LikeMatch(Tail(s), p))
    ELSE IF Head(p) = "_"
        THEN s # <<>> /\ LikeMatch(Tail(s), Tail(p))
    ELSE /\ s # <<>>
         /\ LowerChar(Head(s)) = LowerChar(Head(p))
         /\ LikeMatch(Tail(s), Tail(p))

\* column.ilike(f"%{value}%")
ILikeContains(column, value) == LikeMatch(column, <<"%">> \o value \o <<"%">>)

\* ------------------------------------------------------------------- dates

IsLeap(y) == (y % 4 = 0 /\ y % 100 # 0) \/ y % 400 = 0

DaysInMonth(y, m) ==
    IF m = 2 THEN (IF IsLeap(y) THEN 29 ELSE 28)
    ELSE IF m \in {4, 6, 9, 11} THEN 30
    ELSE 31

RECURSIVE DaysBeforeMonth(_, _)
DaysBeforeMonth(y, m) ==
    IF m = 1 THEN 0 ELSE DaysBeforeMonth(y, m - 1) + DaysInMonth(y, m - 1)

\* date.toordinal(): day 1 is 0001-01-01.
ToOrdinal(d) ==
    LET y == d[1] - 1
    IN  365 * y + (y \div 4) - (y \div 100) + (y \div 400)
        + DaysBeforeMonth(d[1], d[2]) + d[3]

NextDay(d) ==
    IF d[3] < DaysInMonth(d[1], d[2]) THEN <<d[1], d[2], d[3] + 1>>
    ELSE IF d[2] < 12 THEN <<d[1], d[2] + 1, 1>>
    ELSE <<d[1] + 1, 1, 1>>

RECURSIVE AddDays(_, _)
\* date + timedelta(days=n), n >= 0: month by month, then within the month.
AddDays(d, n) ==
    LET left == DaysInMonth(d[1], d[2]) - d[3]
    IN  IF n <= left THEN <<d[1], d[2], d[3] + n>>
        ELSE AddDays(NextDay(<<d[1], d[2], DaysInMonth(d[1], d[2])>>), n - left - 1)

\* Comparison of two dates: -1, 0 or 1.
DateCmp(a, b) ==
    IF a = b THEN 0
    ELSE IF \/ a[1] < b[1]
            \/ (a[1] = b[1] /\ a[2] < b[2])
            \/ (a[1] = b[1] /\ a[2] = b[2] /\ a[3] < b[3]) THEN -1
    ELSE 1

\* Mutant of Weekday: Sunday is 0, as in the JavaScript and SQL conventions.
WeekdaySundayFirst(d) == ToOrdinal(d) % 7

\* date.weekday(): Monday is 0, Sunday is 6.
Weekday(d) == (ToOrdinal(d) + 6) % 7

\* Mutant of CelebrationCandidate: Feb 29 always becomes Feb 28 in a common
\* year.
CelebrationCandidateAlwaysFeb28(birthdate, year, move_feb29_to_feb28) ==
    IF birthdate[2] = 2 /\ birthdate[3] = 29 /\ ~IsLeap(year)
    THEN <<year, 2, 28>>
    ELSE <<year, birthdate[2], birthdate[3]>>

\* The birthday in `year`: Feb 29 in a common year becomes Feb 28 or Mar 1.
CelebrationCandidate(birthdate, year, move_feb29_to_feb28) ==
    IF birthdate[2] = 2 /\ birthdate[3] = 29 /\ ~IsLeap(year)
    THEN (IF move_feb29_to_feb28 THEN <<year, 2, 28>> ELSE <<year, 3, 1>>)
    ELSE <<year, birthdate[2], birthdate[3]>>

\* Mutant of CalcCelebrationDate: a weekend birthday moves to the next day.
CalcCelebrationDateNextDay(birthdate, year, move_feb29_to_feb28) ==
    LET candidate == CelebrationCandidate(birthdate, year, move_feb29_to_feb28)
    IN  IF Weekday(candidate) \in {5, 6} THEN NextDay(candidate) ELSE candidate

\* Mutant of CalcCelebrationDate: the Feb 28 / Mar 1 substitute of a leap-day
\* birthday is returned as it is, without the weekend shift.
CalcCelebrationDateSubstituteKept(birthdate, year, move_feb29_to_feb28) ==
    LET candidate == CelebrationCandidate(birthdate, year, move_feb29_to_feb28)
        wd == Weekday(candidate)
    IN  IF birthdate[2] = 2 /\ birthdate[3] = 29 /\ ~IsLeap(year) THEN candidate
        ELSE IF wd = 5 THEN AddDays(candidate, 2)
        ELSE IF wd = 6 THEN AddDays(candidate, 1)
        ELSE candidate

\* calc_celebration_date(birthdate, year, move_feb29_to_feb28): the birthday
\* in `year`, moved to the next Monday when it falls on a weekend.
CalcCelebrationDate(birthdate, year, move_feb29_to_feb28) ==
    LET candidate == CelebrationCandidate(birthdate, year, move_feb29_to_feb28)
        wd == Weekday(candidate)
    IN  IF wd = 5 THEN AddDays(candidate, 2)
        ELSE IF wd = 6 THEN AddDays(candidate, 1)
        ELSE candidate

\* ----------------------------------------------------------- configuration

\* app_config.UPCOMING_BIRTHDAYS_PERIOD_DAYS
UPCOMING_BIRTHDAYS_PERIOD_DAYS == 7

\* app_config.DO_MOVE_CELEBRATION_FEB_29_TO_FEB_28
DO_MOVE_CELEBRATION_FEB_29_TO_FEB_28 == TRUE

\* ------------------------------------------------------------ input values

Users == {1, 2}

\* The contact bodies a client submits: first_name, last_name, email,
\* birthdate.  1985-06-14 is a Saturday in 2025, 1990-06-10 a Tuesday.
Body(fn, ln, em, bd) ==
    [first_name |-> fn, last_name |-> ln, email |-> em, birthdate |-> bd]

BodyAb == Body(<<"A", "b">>, <<"b">>, <<"a", "_", "b", "@", "a">>, <<1985, 6, 14>>)

BodyAbTwin == Body(<<"a", "b">>, <<"B">>, <<"a", "a", "b", "@", "a">>, <<1985, 6, 14>>)

BodyB == Body(<<"b">>, <<"a">>, <<"b", "@", "a">>, <<1990, 6, 10>>)

BodyJan == Body(<<"a">>, <<"b">>, <<"a", "@", "b">>, <<1990, 1, 2>>)

BodyDec == Body(<<"a">>, <<"a", "b">>, <<"b", "@", "b">>, <<1988, 12, 20>>)

BodyJul == Body(<<"b">>, <<"b">>, <<"b", "@", "b">>, <<1992, 7, 15>>)

BodyLeap == Body(<<"b", "a">>, <<"a">>, <<"a", "@", "b">>, <<2000, 2, 29>>)

Filter(fn, ln, em) == [first_name |-> fn, last_name |-> ln, email |-> em]

NoFilter == Filter(None, None, None)

AllFilters ==
    { NoFilter,
      Filter(Some(<<>>), None, None),
      Filter(Some(<<"a">>), None, None),
      Filter(Some(<<"B">>), None, None),
      Filter(Some(<<"_">>), None, None),
      Filter(None, Some(<<"A">>), None),
      Filter(Some(<<"a", "b">>), Some(<<"b">>), None),
      Filter(None, None, Some(<<"B", "@">>)),
      Filter(None, None, Some(<<"a", "_", "b">>)),
      Filter(None, None, Some(<<"%", "b">>)) }

Pagination(skip, limit) == [skip |-> skip, limit |-> limit]

AllPaginations ==
    { Pagination(0, 1), Pagination(0, 2), Pagination(1, 1), Pagination(1, 2),
      Pagination(2, 1), Pagination(0, 3) }

\* The days on which the upcoming-birthdays query runs: a Saturday whose
\* seventh day is a Saturday of the same month, a Tuesday, a day whose
\* window wraps into the next year, and a day in February of a common year
\* whose window wraps into March.
AllTodays == { <<2025, 6, 7>>, <<2025, 6, 10>>, <<2025, 12, 28>>, <<2025, 2, 24>> }

AllUpcomingDays == { None, Some(0), Some(7), Some(5) }

AllMoveFlags == { None, Some(TRUE), Some(FALSE) }

\* ------------------------------------------------------------------- store

\* Mutant of OwnedBy: every row is visible to every user.
OwnedByAnyone(c, user_id) == TRUE

\* Owner scoping of the contacts repository: a row is visible to user_id
\* only when it belongs to user_id.
OwnedBy(c, user_id) == c.owner_id = user_id

ContactById(store, user_id, contact_id) ==
    {c \in store : c.id = contact_id /\ OwnedBy(c, user_id)}

\* get_contacts_total_count(user_id)
ContactsTotalCount(store, user_id) ==
    Cardinality({c \in store : OwnedBy(c, user_id)})

Respond(r) == responses' = Append(responses, r)

\* The create_user calls that may run at the same time.
Calls == {1, 2}

\* A create_user call that has not started or has returned.
Idle == [pc |-> "idle"]

Init ==
    /\ contacts = {}
    /\ next_id = 1
    /\ commits = 0
    /\ responses = <<>>
    /\ pending = None
    /\ users = {}
    /\ registrations = [call \in Calls |-> Idle]

\* create_contact: db.add, commit, refresh.
CreateContact(user_id, body) ==
    /\ commits < MaxCommits
    /\ LET contact ==
               [id |-> next_id, owner_id |-> user_id,
                first_name |-> body.first_name, last_name |-> body.last_name,
                email |-> body.email, birthdate |-> body.birthdate,
                updated_at |-> commits + 1]
       IN  /\ contacts' = contacts \cup {contact}
           /\ Respond([op |-> "create", user_id |-> user_id, at |-> commits,
                       result |-> Some(contact)])
    /\ next_id' = next_id + 1
    /\ commits' = commits + 1
    /\ UNCHANGED <<pending, users, registrations>>

\* setattr(contact, key, value) for every key of the body that is set; the
\* onupdate timestamp is refreshed when the flush writes the row.
ApplyUpdate(contact, data, stamp) ==
    LET written ==
            [k \in DOMAIN contact |->
                IF k \in DOMAIN data THEN data[k] ELSE contact[k]]
    IN  IF written = contact THEN contact
        ELSE [written EXCEPT !.updated_at = stamp]

\* update_contact_by_id: None when the contact is not found.
UpdateContactById(user_id, contact_id, data) ==
    LET found == ContactById(contacts, user_id, contact_id)
    IN  IF found = {}
        THEN /\ Respond([op |-> "update", user_id |-> user_id, at |-> commits, contact_id |-> contact_id,
                         result |-> None])
             /\ UNCHANGED <<contacts, next_id, commits, pending, users, registrations>>
        ELSE /\ commits < MaxCommits
             /\ LET contact == CHOOSE c \in found : TRUE
                    updated == ApplyUpdate(contact, data, commits + 1)
                IN  /\ contacts' = (contacts \ {contact}) \cup {updated}
                    /\ Respond([op |-> "update", user_id |-> user_id,
                                at |-> commits, contact_id |-> contact_id, result |-> Some(updated)])
             /\ commits' = commits + 1
             /\ UNCHANGED <<next_id, pending, users, registrations>>

\* Mutant of RemoveContact: the contact is returned but its row is kept.
RemoveContactKeepingRow(user_id, contact_id) ==
    LET found == ContactById(contacts, user_id, contact_id)
    IN  /\ Respond([op |-> "remove", user_id |-> user_id, at |-> commits,
                    contact_id |-> contact_id,
                    result |-> IF found = {} THEN None
                               ELSE Some(CHOOSE c \in found : TRUE)])
        /\ UNCHANGED <<contacts, next_id, commits, pending, users, registrations>>

\* remove_contact: None when the contact is not found.
RemoveContact(user_id, contact_id) ==
    LET found == ContactById(contacts, user_id, contact_id)
    IN  IF found = {}
        THEN /\ Respond([op |-> "remove", user_id |-> user_id, at |-> commits, contact_id |-> contact_id,
                         result |-> None])
             /\ UNCHANGED <<contacts, next_id, commits, pending, users, registrations>>
        ELSE /\ commits < MaxCommits
             /\ LET contact == CHOOSE c \in found : TRUE
                IN  /\ contacts' = contacts \ {contact}
                    /\ Respond([op |-> "remove", user_id |-> user_id,
                                at |-> commits, contact_id |-> contact_id, result |-> Some(contact)])
             /\ commits' = commits + 1
             /\ UNCHANGED <<next_id, pending, users, registrations>>

\* ------------------------------------------------------------------- users

\* app_config.RESERVED_USERNAMES
RESERVED_USERNAMES ==
    { <<"a", "d", "m", "i", "n">>,
      <<"a", "d", "m", "i", "n", "i", "s", "t", "r", "a", "t", "o", "r">>,
      <<"s", "u", "p", "e", "r", "a", "d", "m", "i", "n">>,
      <<"s", "u", "p", "e", "r", "u", "s", "e", "r">>,
      <<"r", "o", "o", "t">>,
      <<"s", "y", "s", "t", "e", "m">>,
      <<"m", "o", "d", "e", "r", "a", "t", "o", "r">>,
      <<"u", "s", "e", "r">>,
      <<"t", "e", "s", "t">>,
      <<"s", "u", "p", "p", "o", "r", "t">> }

\* app_config.SUPERADMIN_USERNAME, by default
SUPERADMIN_USERNAME == <<"s", "u", "p", "e", "r", "a", "d", "m", "i", "n">>

\* app_config.ADMIN_USERNAME, by default
ADMIN_USERNAME == <<"a", "d", "m", "i", "n">>

\* app_config.effective_reserved_usernames
effective_reserved_usernames ==
    RESERVED_USERNAMES \ {Lower(SUPERADMIN_USERNAME), Lower(ADMIN_USERNAME)}

\* UsersRepository.get_user_by_username: User.username == username
GetUserByUsername(store, username) == {u \in store : u.username = username}

\* UsersRepository.get_user_by_email: User.email == email
GetUserByEmail(store, email) == {u \in store : u.email = email}

\* UsersRepository.get_user_by_id
GetUserById(store, user_id) == {u \in store : u.id = user_id}

\* User(**data): is_active and role take their column defaults.
NewUser(store, username, email) ==
    [id |-> Cardinality(store) + 1, username |-> username, email |-> email,
     is_active |-> TRUE, role |-> "user"]

\* The conflicts UserService.create_user finds before it creates the user.
ConflictErrors(store, username, email) ==
    {k \in {"username", "email"} :
        \/ k = "username" /\ GetUserByUsername(store, username) # {}
        \/ k = "email" /\ GetUserByEmail(store, email) # {}}

\* POST /auth/register: 409 for a reserved username, 409 for a conflict
\* found by create_user, 201 with the new user otherwise.
RegisterUser(username, email) ==
    /\ IF Lower(username) \in effective_reserved_usernames
       THEN /\ Respond([op |-> "register", status |-> 409, detail |-> {"reserved"},
                        username |-> username, email |-> email])
            /\ UNCHANGED users
       ELSE LET errors == ConflictErrors(users, username, email)
            IN  IF errors # {}
                THEN /\ Respond([op |-> "register", status |-> 409,
                                 detail |-> errors,
                                 username |-> username, email |-> email])
                     /\ UNCHANGED users
                ELSE /\ users' = users \cup {NewUser(users, username, email)}
                     /\ Respond([op |-> "register", status |-> 201, detail |-> {},
                                 username |-> username, email |-> email])
    /\ UNCHANGED <<contacts, next_id, commits, pending, registrations>>

\* POST /auth/register reaches UserService.create_user: the call starts with
\* no conflict recorded.  A reserved username is refused before that.
BeginCreateUser(call, username, email) ==
    /\ registrations[call] = Idle
    /\ IF Lower(username) \in effective_reserved_usernames
       THEN /\ Respond([op |-> "create_user", call |-> call, status |-> 409,
                        error |-> "reserved", username |-> username, email |-> email])
            /\ UNCHANGED registrations
       ELSE /\ registrations' = [registrations EXCEPT ![call] =
                   [pc |-> "username", username |-> username, email |-> email,
                    errors |-> {}]]
            /\ UNCHANGED responses
    /\ UNCHANGED <<contacts, next_id, commits, pending, users>>

\* create_user awaits get_user_by_username: it reads the committed users.
CheckUsername(call) ==
    LET reg == registrations[call]
    IN  /\ reg.pc = "username"
        /\ registrations' = [registrations EXCEPT ![call] =
               [reg EXCEPT !.pc = "email",
                           !.errors = IF GetUserByUsername(users, reg.username) # {}
                                      THEN {"username"} ELSE {}]]
        /\ UNCHANGED <<contacts, next_id, commits, responses, pending, users>>

\* create_user awaits get_user_by_email, then raises UserConflictError when a
\* conflict was found; register_user answers it with 409.
CheckEmail(call) ==
    LET reg == registrations[call]
        errors == reg.errors \cup (IF GetUserByEmail(users, reg.email) # {}
                                   THEN {"email"} ELSE {})
    IN  /\ reg.pc = "email"
        /\ IF errors # {}
           THEN /\ Respond([op |-> "create_user", call |-> call, status |-> 409,
                            error |-> "UserConflictError",
                            username |-> reg.username, email |-> reg.email])
                /\ registrations' = [registrations EXCEPT ![call] = Idle]
           ELSE /\ registrations' = [registrations EXCEPT ![call] =
                       [reg EXCEPT !.pc = "insert", !.errors = {}]]
                /\ UNCHANGED responses
        /\ UNCHANGED <<contacts, next_id, commits, pending, users>>

\* The unique constraints of User.username and User.email refuse the row.
UniqueViolation(store, username, email) ==
    \E u \in store : u.username = username \/ u.email = email

\* UsersRepository.create_user: add and commit.  The commit of a row that
\* breaks a unique constraint raises IntegrityError, which nothing between the
\* repository and the global exception handler catches: the answer is 500.
InsertUser(call) ==
    LET reg == registrations[call]
    IN  /\ reg.pc = "insert"
        /\ IF UniqueViolation(users, reg.username, reg.email)
           THEN /\ Respond([op |-> "create_user", call |-> call, status |-> 500,
                            error |-> "IntegrityError",
                            username |-> reg.username, email |-> reg.email])
                /\ UNCHANGED users
           ELSE /\ users' = users \cup {NewUser(users, reg.username, reg.email)}
                /\ Respond([op |-> "create_user", call |-> call, status |-> 201,
                            error |-> "none",
                            username |-> reg.username, email |-> reg.email])
        /\ registrations' = [registrations EXCEPT ![call] = Idle]
        /\ UNCHANGED <<contacts, next_id, commits, pending>>

\* ----------------------------------------------------------------- queries

\* All orders of the rows of S: a query without ORDER BY returns them in
\* any order.
Perms(S) ==
    LET n == Cardinality(S)
    IN  {p \in [1..n -> S] : \A i, j \in 1..n : p[i] = p[j] => i = j}

\* Mutant of OffsetLimit: limit taken as the end position, as in
\* rows[skip:limit].
OffsetLimitAsSlice(rows, skip, limit) ==
    SubSeq(rows, skip + 1, Min(Len(rows), limit))

\* .offset(skip).limit(limit)
OffsetLimit(rows, skip, limit) ==
    SubSeq(rows, skip + 1, Min(Len(rows), skip + limit))

\* order_by(func.lower(first_name), func.lower(last_name), birthdate)
ListOrderCmp(a, b) ==
    LET f == StrCmp(Lower(a.first_name), Lower(b.first_name))
        l == StrCmp(Lower(a.last_name), Lower(b.last_name))
    IN  IF f # 0 THEN f ELSE IF l # 0 THEN l
        ELSE DateCmp(a.birthdate, b.birthdate)

\* The orders in which the store may return the rows of S under the ORDER BY
\* of get_all_contacts: rows that compare equal come in any order.
ListOrdered(S) ==
    {p \in Perms(S) :
        \A i, j \in 1..Len(p) : i < j => ListOrderCmp(p[i], p[j]) <= 0}

\* The optional filters of get_all_contacts: a filter is applied only when
\* it is truthy.
ListWhere(c, filters) ==
    /\ TruthyStr(filters.first_name) =>
           ILikeContains(c.first_name, filters.first_name[1])
    /\ TruthyStr(filters.last_name) =>
           ILikeContains(c.last_name, filters.last_name[1])
    /\ TruthyStr(filters.email) =>
           ILikeContains(c.email, filters.email[1])

\* The rows get_all_contacts selects for user_id.
ListMatching(store, user_id, filters) ==
    {c \in store : OwnedBy(c, user_id) /\ ListWhere(c, filters)}

\* repository get_all_contacts: the result lists the store may return.
RepoGetAllContacts(store, user_id, skip, limit, filters) ==
    { OffsetLimit(rows, skip, limit) :
        rows \in ListOrdered(ListMatching(store, user_id, filters)) }

\* ContactService.get_all_contacts: the (contacts, total_count) pairs it may
\* return.
ServiceGetAllContacts(store, user_id, pagination, filters) ==
    LET total_count == ContactsTotalCount(store, user_id)
    IN  IF total_count = 0
        THEN {[items |-> <<>>, total |-> 0]}
        ELSE {[items |-> items, total |-> total_count] :
                items \in RepoGetAllContacts(store, user_id, pagination.skip,
                                             pagination.limit, filters)}

\* Mutant of GetAllContacts: reading a row refreshes its updated_at.
GetAllContactsRefreshing(user_id, pagination, filters) ==
    /\ \E result \in ServiceGetAllContacts(contacts, user_id, pagination, filters) :
           /\ Respond([op |-> "list", user_id |-> user_id, at |-> commits,
                       pagination |-> pagination, filters |-> filters,
                       items |-> result.items, total |-> result.total])
           /\ contacts' = {IF c \in Range(result.items)
                           THEN [c EXCEPT !.updated_at = commits + 1] ELSE c :
                           c \in contacts}
    /\ UNCHANGED <<next_id, commits, pending, users, registrations>>

\* GET /contacts: the service result becomes the response.
GetAllContacts(user_id, pagination, filters) ==
    /\ \E result \in ServiceGetAllContacts(contacts, user_id, pagination, filters) :
           Respond([op |-> "list", user_id |-> user_id, at |-> commits,
                    pagination |-> pagination, filters |-> filters,
                    items |-> result.items, total |-> result.total])
    /\ UNCHANGED <<contacts, next_id, commits, pending, users, registrations>>

\* ContactService.get_all_contacts up to its first await: the count query.
\* With no contacts the call returns at once; otherwise it holds the count
\* and goes on to the list query.
BeginGetAllContacts(user_id, pagination, filters) ==
    /\ pending = None
    /\ LET total_count == ContactsTotalCount(contacts, user_id)
       IN  IF total_count = 0
           THEN /\ Respond([op |-> "list", user_id |-> user_id, at |-> commits,
                            started_at |-> commits,
                            pagination |-> pagination, filters |-> filters,
                            items |-> <<>>, total |-> 0])
                /\ UNCHANGED pending
           ELSE /\ pending' = Some([user_id |-> user_id, pagination |-> pagination,
                                    filters |-> filters, total_count |-> total_count,
                                    started_at |-> commits])
                /\ UNCHANGED responses
    /\ UNCHANGED <<contacts, next_id, commits, users, registrations>>

\* ContactService.get_all_contacts from its second await: the list query
\* reads the store as committed now, and the call returns the list with the
\* count read before.
FinishGetAllContacts ==
    /\ pending # None
    /\ LET call == pending[1]
       IN  \E items \in RepoGetAllContacts(contacts, call.user_id,
                             call.pagination.skip, call.pagination.limit,
                             call.filters) :
               Respond([op |-> "list", user_id |-> call.user_id, at |-> commits,
                        started_at |-> call.started_at,
                        pagination |-> call.pagination, filters |-> call.filters,
                        items |-> items, total |-> call.total_count])
    /\ pending' = None
    /\ UNCHANGED <<contacts, next_id, commits, users, registrations>>

\* ContactService.get_contacts_count
GetContactsCount(user_id) ==
    /\ Respond([op |-> "count", user_id |-> user_id, at |-> commits,
                total |-> ContactsTotalCount(contacts, user_id)])
    /\ UNCHANGED <<contacts, next_id, commits, pending, users, registrations>>

\* get_contact_by_id: None when the contact is not found.
GetContactById(user_id, contact_id) ==
    LET found == ContactById(contacts, user_id, contact_id)
    IN  /\ Respond([op |-> "get", user_id |-> user_id, at |-> commits, contact_id |-> contact_id,
                    result |-> IF found = {} THEN None
                               ELSE Some(CHOOSE c \in found : TRUE)])
        /\ UNCHANGED <<contacts, next_id, commits, pending, users, registrations>>

\* ------------------------------------------------------ upcoming birthdays

\* upcoming_days or app_config.UPCOMING_BIRTHDAYS_PERIOD_DAYS
UpcomingPeriodDays(upcoming_days) ==
    IF TruthyInt(upcoming_days) THEN upcoming_days[1]
    ELSE UPCOMING_BIRTHDAYS_PERIOD_DAYS

\* move_feb29_to_feb_28 or app_config.DO_MOVE_CELEBRATION_FEB_29_TO_FEB_28
MoveFeb29ToFeb28(move_feb29_to_feb_28) ==
    IF TruthyBool(move_feb29_to_feb_28) THEN move_feb29_to_feb_28[1]
    ELSE DO_MOVE_CELEBRATION_FEB_29_TO_FEB_28

EndDate(start_date, upcoming_days) ==
    AddDays(start_date, UpcomingPeriodDays(upcoming_days))

\* Mutant of SameMonthWhere: the last day of the window is left out.
SameMonthWhereExclusiveEnd(c, start_date, end_date) ==
    /\ c.birthdate[2] = start_date[2]
    /\ start_date[3] <= c.birthdate[3]
    /\ c.birthdate[3] < end_date[3]

\* The WHERE clause of the same-month branch.
SameMonthWhere(c, start_date, end_date) ==
    /\ c.birthdate[2] = start_date[2]
    /\ start_date[3] <= c.birthdate[3]
    /\ c.birthdate[3] <= end_date[3]

\* Mutant of WrapWhere: the beginning of the next month is left out.
WrapWhereCurrentMonthOnly(c, start_date, end_date) ==
    c.birthdate[2] = start_date[2] /\ c.birthdate[3] >= start_date[3]

\* The WHERE clause of the branch that wraps to the next month.
WrapWhere(c, start_date, end_date) ==
    \/ (c.birthdate[2] = start_date[2] /\ c.birthdate[3] >= start_date[3])
    \/ (c.birthdate[2] = end_date[2] /\ c.birthdate[3] <= end_date[3])

\* The rows the upcoming-birthdays query selects for user_id.
UpcomingMatching(store, user_id, start_date, end_date) ==
    {c \in store :
        /\ OwnedBy(c, user_id)
        /\ IF end_date[2] = start_date[2]
           THEN SameMonthWhere(c, start_date, end_date)
           ELSE WrapWhere(c, start_date, end_date)}

\* order_by(birthdate, func.lower(first_name), func.lower(last_name))
BirthdateOrderCmp(a, b) ==
    LET d == DateCmp(a.birthdate, b.birthdate)
        f == StrCmp(Lower(a.first_name), Lower(b.first_name))
    IN  IF d # 0 THEN d ELSE IF f # 0 THEN f
        ELSE StrCmp(Lower(a.last_name), Lower(b.last_name))

\* The orders in which the store may return the rows of S under the ORDER BY
\* of the same-month query: rows that compare equal come in any order.
BirthdateOrdered(S) ==
    {p \in Perms(S) :
        \A i, j \in 1..Len(p) : i < j => BirthdateOrderCmp(p[i], p[j]) <= 0}

\* The rows the query returns: ordered and paginated in the same-month
\* branch, neither ordered nor paginated in the wrapping branch.
UpcomingRows(store, user_id, skip, limit, start_date, end_date) ==
    LET matching == UpcomingMatching(store, user_id, start_date, end_date)
    IN  IF end_date[2] = start_date[2]
        THEN { OffsetLimit(rows, skip, limit) :
                 rows \in BirthdateOrdered(matching) }
        ELSE Perms(matching)

\* contact_to_dict(contact) with celebration_date added.
WithCelebration(c, current_year, move) ==
    [id |-> c.id, owner_id |-> c.owner_id, first_name |-> c.first_name,
     last_name |-> c.last_name, email |-> c.email, birthdate |-> c.birthdate,
     updated_at |-> c.updated_at,
     celebration_date |-> CalcCelebrationDate(c.birthdate, current_year, move)]

\* Mutant of CelebrationKeyCmp: the key starts with the birthdate.
BirthdateFirstKeyCmp(a, b) ==
    LET d == DateCmp(a.birthdate, b.birthdate)
        f == StrCmp(Lower(a.first_name), Lower(b.first_name))
    IN  IF d # 0 THEN d ELSE IF f # 0 THEN f
        ELSE StrCmp(Lower(a.last_name), Lower(b.last_name))

\* The key of contacts_with_celebration.sort: (celebration_date, birthdate,
\* first_name.lower(), last_name.lower()).
CelebrationKeyCmp(a, b) ==
    LET c == DateCmp(a.celebration_date, b.celebration_date)
        d == DateCmp(a.birthdate, b.birthdate)
        f == StrCmp(Lower(a.first_name), Lower(b.first_name))
    IN  IF c # 0 THEN c ELSE IF d # 0 THEN d ELSE IF f # 0 THEN f
        ELSE StrCmp(Lower(a.last_name), Lower(b.last_name))

RECURSIVE InsertStable(_, _)
\* x inserted into the sorted list after every element that is not greater.
InsertStable(x, sorted) ==
    IF sorted = <<>> THEN <<x>>
    ELSE IF CelebrationKeyCmp(Head(sorted), x) <= 0
        THEN <<Head(sorted)>> \o InsertStable(x, Tail(sorted))
    ELSE <<x>> \o sorted

RECURSIVE SortByCelebration(_)
\* list.sort(key=...): a stable sort.
SortByCelebration(list) ==
    IF list = <<>> THEN <<>>
    ELSE InsertStable(list[Len(list)],
                      SortByCelebration(SubSeq(list, 1, Len(list) - 1)))

\* Mutant of CurrentYear: the year in which the default window ends.
CurrentYearOfWindowEnd(start_date) ==
    AddDays(start_date, UPCOMING_BIRTHDAYS_PERIOD_DAYS)[1]

\* current_year = start_date.year
CurrentYear(start_date) == start_date[1]

\* repository get_contacts_upcoming_birthdays: the result lists it may
\* return.
RepoUpcomingBirthdays(store, user_id, skip, limit, today, upcoming_days, move_feb29_to_feb_28) ==
    LET start_date == today
        end_date == EndDate(start_date, upcoming_days)
        move == MoveFeb29ToFeb28(move_feb29_to_feb_28)
    IN  { SortByCelebration(
              [i \in 1..Len(rows) |->
                  WithCelebration(rows[i], CurrentYear(start_date), move)]) :
            rows \in UpcomingRows(store, user_id, skip, limit, start_date, end_date) }

\* Mutant of UpcomingTotal: the total counts all contacts of the user.
UpcomingTotalAllContacts(store, user_id, today, upcoming_days) ==
    Cardinality({c \in store : c.owner_id = user_id})

\* The total the upcoming-birthdays response carries: the number of matching
\* records before pagination.
UpcomingTotal(store, user_id, today, upcoming_days) ==
    Cardinality(UpcomingMatching(store, user_id, today,
                                 EndDate(today, upcoming_days)))

\* ContactService.get_contacts_upcoming_birthdays: the (birthdays,
\* total_count) pairs it may return.
ServiceUpcomingBirthdays(store, user_id, pagination, today, upcoming_days, move_feb29_to_feb_28) ==
    {[items |-> items,
      total |-> UpcomingTotal(store, user_id, today, upcoming_days)] :
        items \in RepoUpcomingBirthdays(store, user_id, pagination.skip,
                      pagination.limit, today, upcoming_days,
                      move_feb29_to_feb_28)}

GetContactsUpcomingBirthdays(user_id, pagination, today, upcoming_days, move_feb29_to_feb_28) ==
    /\ \E result \in ServiceUpcomingBirthdays(contacts, user_id, pagination,
                         today, upcoming_days, move_feb29_to_feb_28) :
           Respond([op |-> "birthdays", user_id |-> user_id, at |-> commits,
                    pagination |-> pagination, today |-> today,
                    upcoming_days |-> upcoming_days,
                    move_feb29_to_feb_28 |-> move_feb29_to_feb_28,
                    items |-> result.items, total |-> result.total])
    /\ UNCHANGED <<contacts, next_id, commits, pending, users, registrations>>

\* The client takes the responses: the next request starts a new exchange.
Deliver ==
    /\ responses # <<>>
    /\ responses' = <<>>
    /\ UNCHANGED <<contacts, next_id, commits, pending, users, registrations>>

\* date.today() on the server while the requests below are handled.
ServerToday == <<2025, 6, 10>>

\* Mutant of BirthdateNotInFuture: a birthdate of today is refused as well.
BirthdateBeforeToday(value, today) ==
    value = None \/ DateCmp(value[1], today) < 0

\* The birthdate validator of the request schemas: an absent birthdate
\* passes, a present one passes unless value > date.today().
BirthdateNotInFuture(value, today) ==
    value = None \/ ~(DateCmp(value[1], today) > 0)

\* The validation error of a request body: the handler body does not run.
RejectBody(request, user_id, birthdate) ==
    /\ Respond([op |-> "invalid", request |-> request, user_id |-> user_id,
                at |-> commits, birthdate |-> birthdate])
    /\ UNCHANGED <<contacts, next_id, commits, pending, users, registrations>>

\* POST /contacts: the body is validated, then the contact is created.
CreateContactRequest(user_id, body) ==
    IF BirthdateNotInFuture(Some(body.birthdate), ServerToday)
    THEN CreateContact(user_id, body)
    ELSE RejectBody("create", user_id, Some(body.birthdate))

\* PUT and PATCH /contacts/{contact_id}: the body, whole or partial, is
\* validated, then the contact is updated with the fields the body sets.
UpdateContactRequest(user_id, contact_id, data) ==
    LET birthdate == IF "birthdate" \in DOMAIN data
                     THEN Some(data.birthdate) ELSE None
    IN  IF BirthdateNotInFuture(birthdate, ServerToday)
        THEN UpdateContactById(user_id, contact_id, data)
        ELSE RejectBody("update", user_id, birthdate)

\* Mutant of ValidatePagination: out-of-range values are clamped into range.
ValidatePaginationClamped(skip, limit) ==
    Some(Pagination(Max(0, skip), Min(1000, Max(1, limit))))

\* PaginationFilterSchema(skip=skip, limit=limit): skip ge 0, limit ge 1 and
\* le 1000; None stands for the validation error.
ValidatePagination(skip, limit) ==
    IF skip >= 0 /\ limit >= 1 /\ limit <= 1000
    THEN Some(Pagination(skip, limit))
    ELSE None

\* GET /contacts with raw skip and limit: the parameters are validated
\* before the handler body runs; the handler reads the store only then.
ReadAllContacts(user_id, skip, limit, filters) ==
    LET validated == ValidatePagination(skip, limit)
    IN  /\ IF validated = None
           THEN Respond([op |-> "rejected", user_id |-> user_id, at |-> commits,
                         raw_skip |-> skip, raw_limit |-> limit, queries |-> 0])
           ELSE \E result \in ServiceGetAllContacts(contacts, user_id,
                                                    validated[1], filters) :
                    Respond([op |-> "list", user_id |-> user_id, at |-> commits,
                             raw_skip |-> skip, raw_limit |-> limit,
                             pagination |-> validated[1], filters |-> filters,
                             queries |-> IF result.total = 0 THEN 1 ELSE 2,
                             items |-> result.items, total |-> result.total])
        /\ UNCHANGED <<contacts, next_id, commits, pending, users, registrations>>

\* UsersRepository.update_user_by_id: None when the user is not found.
UpdateUserById(user_id, fields) ==
    LET found == GetUserById(users, user_id)
    IN  /\ IF found = {}
           THEN /\ Respond([op |-> "update_user", user_id |-> user_id, result |-> None])
                /\ UNCHANGED users
           ELSE LET user == CHOOSE u \in found : TRUE
                    updated == [k \in DOMAIN user |->
                                   IF k \in DOMAIN fields THEN fields[k] ELSE user[k]]
                IN  /\ users' = (users \ {user}) \cup {updated}
                    /\ Respond([op |-> "update_user", user_id |-> user_id,
                                result |-> Some(updated)])
        /\ UNCHANGED <<contacts, next_id, commits, pending, registrations>>

\* get_current_user and get_current_active_user for the user id of a valid
\* token: 401 when the user does not exist, 403 for an inactive user that is
\* not a superadmin, the user otherwise.
GetCurrentActiveUser(store, user_id) ==
    LET found == GetUserById(store, user_id)
    IN  IF found = {} THEN [status |-> 401]
        ELSE LET user == CHOOSE u \in found : TRUE
             IN  IF ~user.is_active /\ user.role # "superadmin"
                 THEN [status |-> 403]
                 ELSE [status |-> 200, user |-> user]

\* The error response of a request stopped by its dependencies.
Deny(user_id, status) ==
    /\ Respond([op |-> "denied", user_id |-> user_id, status |-> status])
    /\ UNCHANGED <<contacts, next_id, commits, pending, users, registrations>>

\* GET /contacts behind get_current_active_user.
AuthorizedGetAllContacts(token_user_id, pagination, filters) ==
    LET auth == GetCurrentActiveUser(users, token_user_id)
    IN  IF auth.status # 200 THEN Deny(token_user_id, auth.status)
        ELSE GetAllContacts(auth.user.id, pagination, filters)

\* GET /users/me behind get_current_active_user.
GetMe(token_user_id) ==
    LET auth == GetCurrentActiveUser(users, token_user_id)
    IN  IF auth.status # 200 THEN Deny(token_user_id, auth.status)
        ELSE /\ Respond([op |-> "me", user_id |-> auth.user.id,
                         result |-> Some(auth.user)])
             /\ UNCHANGED <<contacts, next_id, commits, pending, users, registrations>>

\* A call of calc_celebration_date on its own: the response carries the
\* arguments and the date returned.
CelebrationDate(birthdate, year, move_feb29_to_feb28) ==
    /\ responses = <<>>
    /\ responses' =
           <<[op |-> "celebration", birthdate |-> birthdate, year |-> year,
              move_feb29_to_feb_28 |-> move_feb29_to_feb28,
              result |-> CalcCelebrationDate(birthdate, year, move_feb29_to_feb28)]>>
    /\ UNCHANGED <<contacts, next_id, commits, pending, users, registrations>>

\* ---------------------------------------------------------- specifications

CoreBodies == {BodyAb, BodyAbTwin, BodyB}

\* The bodies of full and partial updates.
UpdateData == { [first_name |-> <<"b">>], [birthdate |-> <<1990, 6, 10>>] }

ContactIds == 1..MaxCommits

CorePaginations == { Pagination(0, 1), Pagination(0, 2), Pagination(1, 1) }

CoreFilters == { NoFilter, Filter(Some(<<"a">>), None, None) }

\* The whole service, one request at a time, for two users.
Next ==
    \/ \E u \in Users, b \in CoreBodies :
           responses = <<>> /\ CreateContact(u, b)
    \/ \E u \in Users, id \in ContactIds, d \in UpdateData :
           responses = <<>> /\ UpdateContactById(u, id, d)
    \/ \E u \in Users, id \in ContactIds :
           responses = <<>> /\ RemoveContact(u, id)
    \/ \E u \in Users, id \in ContactIds :
           responses = <<>> /\ GetContactById(u, id)
    \/ \E u \in Users, p \in CorePaginations, f \in CoreFilters :
           responses = <<>> /\ GetAllContacts(u, p, f)
    \/ \E u \in Users :
           responses = <<>> /\ GetContactsCount(u)
    \/ \E u \in Users, p \in CorePaginations, t \in {<<2025, 6, 7>>, <<2025, 12, 28>>} :
           responses = <<>> /\ GetContactsUpcomingBirthdays(u, p, t, None, None)
    \/ Deliver

Spec == Init /\ [][Next]_vars

ListBodies == {BodyAb, BodyAbTwin, BodyB, BodyLeap}

\* One user's contact list under every filter and page.
NextList ==
    \/ \E b \in ListBodies :
           responses = <<>> /\ CreateContact(1, b)
    \/ \E p \in AllPaginations, f \in AllFilters :
           responses = <<>> /\ GetAllContacts(1, p, f)
    \/ Deliver

SpecList == Init /\ [][NextList]_vars

\* A client that reads the list page by page: up to three reads in one
\* exchange.
NextPaging ==
    \/ \E b \in CoreBodies :
           responses = <<>> /\ CreateContact(1, b)
    \/ \E p \in CorePaginations :
           Len(responses) < 3 /\ GetAllContacts(1, p, NoFilter)
    \/ Deliver

SpecPaging == Init /\ [][NextPaging]_vars

BirthdayBodies == {BodyAb, BodyB, BodyJan, BodyDec, BodyLeap}

\* One user's upcoming birthdays on every day, window and page.
NextBirthdays ==
    \/ \E b \in BirthdayBodies :
           responses = <<>> /\ CreateContact(1, b)
    \/ \E p \in AllPaginations, t \in AllTodays, n \in AllUpcomingDays,
          m \in AllMoveFlags :
           responses = <<>> /\ GetContactsUpcomingBirthdays(1, p, t, n, m)
    \/ Deliver

SpecBirthdays == Init /\ [][NextBirthdays]_vars

LongWindowBodies == {BodyAb, BodyB, BodyJan, BodyJul}

\* Windows of one month, two months and one year.
LongWindows == { Some(30), Some(60), Some(365) }

\* One user's upcoming birthdays with windows longer than a month.
NextLongWindow ==
    \/ \E b \in LongWindowBodies :
           responses = <<>> /\ CreateContact(1, b)
    \/ \E p \in AllPaginations, t \in {<<2025, 6, 7>>, <<2025, 12, 28>>}, n \in LongWindows :
           responses = <<>> /\ GetContactsUpcomingBirthdays(1, p, t, n, None)
    \/ Deliver

SpecLongWindow == Init /\ [][NextLongWindow]_vars

\* Raw query parameters around the limits of the schema.
RawSkips == {-1, 0, 1, 2}

RawLimits == {-1, 0, 1, 2, 1000, 1001}

\* One user's list requests with raw pagination parameters.
NextRequests ==
    \/ \E b \in CoreBodies :
           responses = <<>> /\ CreateContact(1, b)
    \/ \E skip \in RawSkips, limit \in RawLimits, f \in CoreFilters :
           responses = <<>> /\ ReadAllContacts(1, skip, limit, f)
    \/ Deliver

SpecRequests == Init /\ [][NextRequests]_vars

\* One user's list call running while other requests of the same user
\* create and remove contacts.
NextConcurrent ==
    \/ \E b \in CoreBodies :
           (responses = <<>> \/ pending # None) /\ CreateContact(1, b)
    \/ \E id \in ContactIds :
           /\ responses = <<>> \/ pending # None
           /\ ContactById(contacts, 1, id) # {}
           /\ RemoveContact(1, id)
    \/ \E p \in CorePaginations, f \in CoreFilters :
           responses = <<>> /\ BeginGetAllContacts(1, p, f)
    \/ FinishGetAllContacts
    \/ pending = None /\ Deliver

SpecConcurrent == Init /\ [][NextConcurrent]_vars

\* Bodies with birthdates before, on and after the server's today, earlier
\* and later in the calendar year, and on a leap day.
WriteBodies ==
    {Body(<<"a">>, <<"b">>, <<"a", "@", "b">>, bd) :
        bd \in {<<2025, 6, 9>>, <<2025, 6, 10>>, <<2025, 6, 11>>,
                <<2024, 2, 29>>, <<2024, 12, 31>>, <<2026, 1, 1>>}}

\* Partial bodies with and without a birthdate.
PartialBodies ==
    { [first_name |-> <<"b">>], [birthdate |-> <<2025, 6, 10>>],
      [birthdate |-> <<2025, 6, 11>>],
      [last_name |-> <<"a">>, birthdate |-> <<2026, 1, 1>>] }

\* One user's writes with validated bodies.
NextWrites ==
    \/ \E b \in WriteBodies :
           responses = <<>> /\ CreateContactRequest(1, b)
    \/ \E id \in ContactIds, d \in WriteBodies \cup PartialBodies :
           responses = <<>> /\ UpdateContactRequest(1, id, d)
    \/ Deliver

SpecWrites == Init /\ [][NextWrites]_vars

\* Usernames: reserved ones in several spellings and an ordinary one.
Usernames ==
    { <<"a", "d", "m", "i", "n">>, <<"A", "d", "m", "i", "n">>,
      <<"r", "o", "o", "t">>, <<"R", "o", "o", "t">>,
      <<"T", "e", "s", "T">>, <<"a", "b">>, <<"A", "b">> }

Emails == { <<"a", "@", "a">>, <<"b", "@", "a">>, <<"a", "@", "b">> }

\* Public registration, one request at a time.
NextRegister ==
    \/ \E n \in Usernames, e \in Emails :
           responses = <<>> /\ RegisterUser(n, e)
    \/ Deliver

SpecRegister == Init /\ [][NextRegister]_vars

\* The fields an administrator sets on a user.
UserFields ==
    { [is_active |-> FALSE], [is_active |-> TRUE],
      [role |-> "superadmin"], [role |-> "admin"] }

\* The user ids a valid token may carry.
TokenUserIds == 1..3

\* Accounts that are registered, changed by an administrator, and used.
NextAccounts ==
    \/ \E n \in {<<"a", "b">>, <<"b">>}, e \in {<<"a", "@", "a">>, <<"b", "@", "a">>} :
           responses = <<>> /\ RegisterUser(n, e)
    \/ \E id \in TokenUserIds, f \in UserFields :
           responses = <<>> /\ UpdateUserById(id, f)
    \/ \E id \in TokenUserIds :
           responses = <<>> /\ AuthorizedGetAllContacts(id, Pagination(0, 1), NoFilter)
    \/ \E id \in TokenUserIds :
           responses = <<>> /\ GetMe(id)
    \/ Deliver

SpecAccounts == Init /\ [][NextAccounts]_vars

\* Two registration requests handled at the same time.
NextRegistration ==
    \/ \E call \in Calls, n \in {<<"a", "b">>, <<"b">>, <<"r", "o", "o", "t">>},
          e \in {<<"a", "@", "a">>, <<"b", "@", "a">>} :
           responses = <<>> /\ BeginCreateUser(call, n, e)
    \/ \E call \in Calls : CheckUsername(call)
    \/ \E call \in Calls : CheckEmail(call)
    \/ \E call \in Calls : InsertUser(call)
    \/ Deliver

SpecRegistration == Init /\ [][NextRegistration]_vars

\* Every birthdate of two birth years, one leap and one common.
AllBirthdates ==
    {b \in {<<y, m, d>> : y \in {1999, 2000}, m \in 1..12, d \in 1..31} :
        b[3] <= DaysInMonth(b[1], b[2])}

\* Reference years around a leap year; 2022 ends on a Saturday.
ReferenceYears == 2022..2026

\* calc_celebration_date on every birthdate, reference year and policy.
NextCelebration ==
    \/ \E b \in AllBirthdates, y \in ReferenceYears, m \in BOOLEAN :
           CelebrationDate(b, y, m)
    \/ Deliver

SpecCelebration == Init /\ [][NextCelebration]_vars

\* ------------------------------------------------------------------ claims

\* The responses of kind `op` that describe the store as it is now.
Current(op) == {r \in Range(responses) : r.op = op /\ r.at = commits}

\* value occurs in column as a substring, ignoring case.
ContainsIgnoringCase(column, value) ==
    \E i \in 0..(Len(column) - Len(value)) :
        Lower(SubSeq(column, i + 1, i + Len(value))) = Lower(value)

FilterIsSet(o) == o # None /\ o[1] # <<>>

\* The user's contacts that contain every set filter field as a substring.
SubstringMatching(store, user_id, filters) ==
    {c \in store :
        /\ c.owner_id = user_id
        /\ FilterIsSet(filters.first_name) =>
               ContainsIgnoringCase(c.first_name, filters.first_name[1])
        /\ FilterIsSet(filters.last_name) =>
               ContainsIgnoringCase(c.last_name, filters.last_name[1])
        /\ FilterIsSet(filters.email) =>
               ContainsIgnoringCase(c.email, filters.email[1])}

\* C1: the contacts from which a list response takes its page are exactly
\* the user's contacts that contain every set filter field as a
\* case-insensitive substring; an absent or empty filter field does not
\* constrain.
C1_FilterIsSubstringMatch ==
    \A r \in Current("list") :
        LET expected == SubstringMatching(contacts, r.user_id, r.filters)
        IN  /\ ListMatching(contacts, r.user_id, r.filters) = expected
            /\ Range(r.items) \subseteq expected

\* The total key (lower(first_name), lower(last_name), birthdate, id).
TotalKeyLess(a, b) ==
    LET f == StrCmp(Lower(a.first_name), Lower(b.first_name))
        l == StrCmp(Lower(a.last_name), Lower(b.last_name))
        d == DateCmp(a.birthdate, b.birthdate)
    IN  IF f # 0 THEN f < 0 ELSE IF l # 0 THEN l < 0
        ELSE IF d # 0 THEN d < 0 ELSE a.id < b.id

\* C3: a list response is sorted ascending by the total key
\* (lower(first_name), lower(last_name), birthdate, id), so contacts that
\* agree on names and birthdate come in ascending id order.
C3_ListSortedByTotalKey ==
    \A r \in Range(responses) :
        r.op = "list" =>
            \A i, j \in 1..Len(r.items) :
                i < j => TotalKeyLess(r.items[i], r.items[j])

\* C4: with no mutation in between, the page (0, n) followed by the page
\* (n, m) is the page (0, n + m) of the same user and filters.
C4_PaginationStable ==
    \A a, b, c \in Range(responses) :
        ( /\ a.op = "list" /\ b.op = "list" /\ c.op = "list"
          /\ a.at = b.at /\ b.at = c.at
          /\ a.user_id = b.user_id /\ b.user_id = c.user_id
          /\ a.filters = b.filters /\ b.filters = c.filters
          /\ a.pagination.skip = 0
          /\ b.pagination.skip = a.pagination.limit
          /\ c.pagination.skip = 0
          /\ c.pagination.limit = a.pagination.limit + b.pagination.limit )
        => a.items \o b.items = c.items

\* C5: a list response holds exactly the elements at positions skip ..
\* skip + limit - 1 of the full ordered sequence of matching contacts: never
\* more than limit, and min(limit, max(0, M - skip)) of M matching contacts,
\* with or without filters.
C5_PageIsSliceOfMatching ==
    \A r \in Current("list") :
        LET matching == ListMatching(contacts, r.user_id, r.filters)
            skip == r.pagination.skip
            limit == r.pagination.limit
            n == Len(r.items)
        IN  /\ n <= limit
            /\ n = Min(limit, Max(0, Cardinality(matching) - skip))
            /\ \E full \in ListOrdered(matching) :
                   \A i \in 1..n : r.items[i] = full[skip + i]

\* A page in the middle of a filtered list: one contact skipped, one
\* returned, one left.
C5_Witness ==
    \E r \in Current("list") :
        /\ r.pagination = Pagination(1, 1)
        /\ TruthyStr(r.filters.first_name)
        /\ Len(r.items) = 1
        /\ Cardinality(ListMatching(contacts, r.user_id, r.filters)) = 3

\* The dates of the inclusive window [today, today + n].
WindowDates(today, n) == {AddDays(today, k) : k \in 0..n}

TouchesAtMostTwoMonths(today, n) ==
    Cardinality({<<d[1], d[2]>> : d \in WindowDates(today, n)}) <= 2

\* The (month, day) of birthdate is the (month, day) of a date of the window.
MonthDayInWindow(birthdate, today, n) ==
    \E d \in WindowDates(today, n) : d[2] = birthdate[2] /\ d[3] = birthdate[3]

\* The contact an item of an upcoming-birthdays response was made from.
ItemContact(item) ==
    [k \in DOMAIN item \ {"celebration_date"} |-> item[k]]

ItemContacts(items) == {ItemContact(items[i]) : i \in 1..Len(items)}

\* The window length the caller asks for: windowDays, or the default 7.
RequestedWindowDays(upcoming_days) ==
    IF upcoming_days = None THEN 7 ELSE upcoming_days[1]

\* The window length the query uses: windowDays, or the default 7 when the
\* caller passes none or 0.
EffectiveWindowDays(upcoming_days) ==
    IF upcoming_days = None \/ upcoming_days[1] = 0 THEN 7
    ELSE upcoming_days[1]

\* C6 as stated, for the calls whose window [today, today + windowDays] is
\* the one the query uses (windowDays >= 1, or none given: the default 7):
\* when the window touches at most two calendar months, a contact is in the
\* matching set of the upcoming-birthdays query if and only if the
\* (month, day) of its birthdate is the (month, day) of some date of the
\* window.
C6_WindowOnRawBirthdate ==
    \A r \in Current("birthdays") :
        LET n == RequestedWindowDays(r.upcoming_days)
            matching == UpcomingMatching(contacts, r.user_id, r.today,
                                         EndDate(r.today, r.upcoming_days))
        IN  (n >= 1 /\ TouchesAtMostTwoMonths(r.today, n)) =>
                \A c \in {x \in contacts : x.owner_id = r.user_id} :
                    c \in matching <=> MonthDayInWindow(c.birthdate, r.today, n)

\* The window starts in February of a common year and ends in March.
FebruaryIntoMarch(today, n) ==
    /\ today[2] = 2
    /\ ~IsLeap(today[1])
    /\ AddDays(today, n)[2] = 3

\* C6 (amended): with endDate = today + n, n the window length the query
\* uses, and a window [today, endDate] that touches at most two calendar
\* months, a contact is in the matching set if and only if the (month, day)
\* of its birthdate is the (month, day) of some date of the window, or its
\* birthdate is Feb 29 and the window runs from February of a common year
\* into March.  The items of the response are made from matching contacts,
\* whatever their celebration dates.
C6_WindowOnRawBirthdateAmended ==
    \A r \in Current("birthdays") :
        LET n == EffectiveWindowDays(r.upcoming_days)
            matching == UpcomingMatching(contacts, r.user_id, r.today,
                                         EndDate(r.today, r.upcoming_days))
            expected ==
                {c \in contacts :
                    /\ c.owner_id = r.user_id
                    /\ \/ MonthDayInWindow(c.birthdate, r.today, n)
                       \/ /\ c.birthdate[2] = 2 /\ c.birthdate[3] = 29
                          /\ FebruaryIntoMarch(r.today, n)}
        IN  TouchesAtMostTwoMonths(r.today, n) =>
                /\ matching = expected
                /\ ItemContacts(r.items) \subseteq expected
                /\ (r.pagination.skip = 0 /\ Len(r.items) < r.pagination.limit)
                       => ItemContacts(r.items) = expected

\* A Saturday birthday on the last day of the window (today + 7) is returned
\* with a celebration date two days after the end of the window.
C6_Witness ==
    \E r \in Current("birthdays") :
        /\ r.today = <<2025, 6, 7>> /\ r.upcoming_days = Some(7)
        /\ \E i \in 1..Len(r.items) :
               /\ r.items[i].birthdate = <<1985, 6, 14>>
               /\ r.items[i].celebration_date = <<2025, 6, 16>>
               /\ DateCmp(r.items[i].celebration_date, AddDays(r.today, 7)) > 0

\* C7: when endDate = today + windowDays lies in another month than today
\* (December to January included), the matching set is the union of the
\* contacts born in today's month on a day >= today.day and the contacts
\* born in endDate's month on a day <= endDate.day.
C7_MonthWrapUnion ==
    \A r \in Current("birthdays") :
        LET end == AddDays(r.today, RequestedWindowDays(r.upcoming_days))
            matching == UpcomingMatching(contacts, r.user_id, r.today,
                                         EndDate(r.today, r.upcoming_days))
            expected ==
                {c \in contacts :
                    /\ c.owner_id = r.user_id
                    /\ \/ (c.birthdate[2] = r.today[2] /\ c.birthdate[3] >= r.today[3])
                       \/ (c.birthdate[2] = end[2] /\ c.birthdate[3] <= end[3])}
        IN  end[2] # r.today[2] =>
                /\ matching = expected
                /\ ItemContacts(r.items) \subseteq expected

\* On Dec 28 with a window of 7 days the contact born on a Jan 2 is returned
\* and the contact born on a Dec 20 is not.
C7_Witness ==
    \E r \in Current("birthdays") :
        /\ r.today = <<2025, 12, 28>> /\ r.upcoming_days = Some(7)
        /\ \E i \in 1..Len(r.items) : r.items[i].birthdate = <<1990, 1, 2>>
        /\ \E c \in contacts : c.birthdate = <<1988, 12, 20>>
        /\ \A i \in 1..Len(r.items) : r.items[i].birthdate # <<1988, 12, 20>>

\* (celebration_date, birthdate, lower(first_name), lower(last_name)) of a
\* is less than or equal to that of b.
CelebrationKeyLE(a, b) ==
    LET c == DateCmp(a.celebration_date, b.celebration_date)
        d == DateCmp(a.birthdate, b.birthdate)
        f == StrCmp(Lower(a.first_name), Lower(b.first_name))
        l == StrCmp(Lower(a.last_name), Lower(b.last_name))
    IN  \/ c < 0
        \/ (c = 0 /\ d < 0)
        \/ (c = 0 /\ d = 0 /\ f < 0)
        \/ (c = 0 /\ d = 0 /\ f = 0 /\ l <= 0)

\* The complete matching set with celebration dates, in every order that is
\* sorted by the celebration key.
SortedCelebrations(r) ==
    LET matching == UpcomingMatching(contacts, r.user_id, r.today,
                                     EndDate(r.today, r.upcoming_days))
        records == {WithCelebration(c, r.today[1],
                                    MoveFeb29ToFeb28(r.move_feb29_to_feb_28)) :
                      c \in matching}
    IN  {p \in Perms(records) :
            \A i, j \in 1..Len(p) : i < j => CelebrationKeyLE(p[i], p[j])}

\* C8: the page of an upcoming-birthdays response is the slice
\* [skip, skip + limit) of the complete matching set sorted by
\* (celebration_date, birthdate, lower(first_name), lower(last_name)).
C8_PageAfterCelebrationSort ==
    \A r \in Current("birthdays") :
        \E full \in SortedCelebrations(r) :
            r.items = SubSeq(full, r.pagination.skip + 1,
                             Min(Len(full), r.pagination.skip + r.pagination.limit))

\* C9: the records of an upcoming-birthdays response are in ascending order
\* of (celebration_date, birthdate, lower(first_name), lower(last_name)).
C9_SortedByCelebrationKey ==
    \A r \in Range(responses) :
        r.op = "birthdays" =>
            \A i \in 1..(Len(r.items) - 1) :
                CelebrationKeyLE(r.items[i], r.items[i + 1])

\* Two records whose celebration order is the reverse of their birthdate
\* order.
C9_Witness ==
    \E r \in Range(responses) :
        /\ r.op = "birthdays"
        /\ Len(r.items) >= 2
        /\ DateCmp(r.items[1].birthdate, r.items[2].birthdate) > 0
        /\ DateCmp(r.items[1].celebration_date, r.items[2].celebration_date) < 0

\* C10: the total of an upcoming-birthdays response is the number of
\* contacts in the matching set before pagination, whatever skip and limit.
C10_TotalIsMatchingCount ==
    \A r \in Current("birthdays") :
        r.total = Cardinality(
                      UpcomingMatching(contacts, r.user_id, r.today,
                                       EndDate(r.today, r.upcoming_days)))

\* A page beyond the end of a non-empty matching set: no items, and a total
\* that still counts the matching contacts.
C10_Witness ==
    \E r \in Current("birthdays") :
        /\ r.today = <<2025, 6, 7>>
        /\ r.pagination = Pagination(2, 1)
        /\ r.items = <<>>
        /\ r.total = 2

\* Every result the list and upcoming-birthdays queries may give user_id on
\* store, for every page, filter, day and window.
View(store, user_id) ==
    << [p \in CorePaginations, f \in AllFilters |->
            ServiceGetAllContacts(store, user_id, p, f)],
       [p \in CorePaginations, t \in AllTodays |->
            ServiceUpcomingBirthdays(store, user_id, p, t, None, None)] >>

\* The last response, when the step added one.
Added == IF Len(responses') > Len(responses)
         THEN {responses'[Len(responses')]} ELSE {}

PlainFilter(filters) ==
    \A k \in {"first_name", "last_name", "email"} :
        filters[k] # None => \A i \in 1..Len(filters[k][1]) :
                                 filters[k][1][i] \notin {"%", "_"}

\* C11: the total returned with the items of listContacts is the number of
\* the owner's contacts that match the supplied filters, before pagination.
C11_TotalIsFilteredCount ==
    \A r \in Current("list") :
        PlainFilter(r.filters) =>
            r.total = Cardinality(SubstringMatching(contacts, r.user_id, r.filters))


\* The day of the week by Zeller's congruence: 0 is Saturday, 1 Sunday,
\* 2 Monday, ..., 6 Friday.
Zeller(d) ==
    LET m == IF d[2] < 3 THEN d[2] + 12 ELSE d[2]
        y == IF d[2] < 3 THEN d[1] - 1 ELSE d[1]
        K == y % 100
        J == y \div 100
    IN  (d[3] + ((13 * (m + 1)) \div 5) + K + (K \div 4) + (J \div 4) + 5 * J) % 7

\* The calls of calc_celebration_date answered.
Celebrations == {r \in Range(responses) : r.op = "celebration"}

\* The birthday exists in the reference year.
ExistsInYear(birthdate, year) ==
    ~(birthdate[2] = 2 /\ birthdate[3] = 29 /\ ~IsLeap(year))

\* C12: a birthday that falls on Monday to Friday in the reference year is
\* celebrated on that day: the result is (year, month, day of birthdate).
C12_WeekdayKeepsDate ==
    \A r \in Celebrations :
        LET candidate == <<r.year, r.birthdate[2], r.birthdate[3]>>
        IN  (ExistsInYear(r.birthdate, r.year) /\ Zeller(candidate) \in 2..6)
                => r.result = candidate

\* A birthday on Monday 2025-06-16.
C12_Witness ==
    \E r \in Celebrations :
        /\ r.birthdate = <<1999, 6, 16>> /\ r.year = 2025
        /\ Zeller(<<2025, 6, 16>>) = 2
        /\ r.result = <<2025, 6, 16>>

\* C13: a birthday that falls on a weekend in the reference year is
\* celebrated on the next Monday: two days after a Saturday, one day after a
\* Sunday, across the end of a month or of the year.
C13_WeekendMovesToMonday ==
    \A r \in Celebrations :
        LET candidate == <<r.year, r.birthdate[2], r.birthdate[3]>>
        IN  ExistsInYear(r.birthdate, r.year) =>
                /\ Zeller(candidate) = 0 =>
                       r.result = AddDays(candidate, 2) /\ Zeller(r.result) = 2
                /\ Zeller(candidate) = 1 =>
                       r.result = AddDays(candidate, 1) /\ Zeller(r.result) = 2

\* Saturday 2022-12-31 is celebrated on Monday 2023-01-02.
C13_Witness ==
    \E r \in Celebrations :
        /\ r.birthdate[2] = 12 /\ r.birthdate[3] = 31 /\ r.year = 2022
        /\ Zeller(<<2022, 12, 31>>) = 0
        /\ r.result = <<2023, 1, 2>>

\* The next Monday of a weekend day, the day itself otherwise.
ShiftWeekend(d) ==
    IF Zeller(d) = 0 THEN AddDays(d, 2)
    ELSE IF Zeller(d) = 1 THEN AddDays(d, 1)
    ELSE d

\* C14: a Feb 29 birthdate starts from Feb 29 in a leap reference year;
\* in a common year it starts from Feb 28 when the policy moves it back and
\* from Mar 1 otherwise; the weekend shift applies to that date.
C14_LeapDayPolicy ==
    \A r \in Celebrations :
        (r.birthdate[2] = 2 /\ r.birthdate[3] = 29) =>
            r.result = ShiftWeekend(
                IF r.year % 4 = 0 THEN <<r.year, 2, 29>>
                ELSE IF r.move_feb29_to_feb_28 THEN <<r.year, 2, 28>>
                ELSE <<r.year, 3, 1>>)

\* Feb 29 in 2025 without the move: Mar 1 is a Saturday, celebrated on
\* Monday Mar 3.
C14_Witness ==
    \E r \in Celebrations :
        /\ r.birthdate = <<2000, 2, 29>> /\ r.year = 2025
        /\ ~r.move_feb29_to_feb_28
        /\ r.result = <<2025, 3, 3>>


\* C15: upcomingCelebrations computes every celebration_date under the
\* leap-day policy the caller passes, also when the caller passes false;
\* the configured default applies only when no value is passed.
C15_CallerPolicyApplied ==
    \A r \in Current("birthdays") :
        LET policy == IF r.move_feb29_to_feb_28 = None
                      THEN DO_MOVE_CELEBRATION_FEB_29_TO_FEB_28
                      ELSE r.move_feb29_to_feb_28[1]
        IN  \A i \in 1..Len(r.items) :
                r.items[i].celebration_date =
                    CalcCelebrationDate(r.items[i].birthdate, r.today[1], policy)


\* The list requests answered, accepted or rejected.
ListRequests == {r \in Range(responses) : r.op \in {"list", "rejected"}}

\* C16: a list request with skip < 0, limit < 1 or limit > 1000 is rejected
\* before any store query and never served with clamped values; a request
\* in range is served with its skip and limit unchanged.
C16_PaginationValidated ==
    \A r \in ListRequests :
        IF r.raw_skip >= 0 /\ r.raw_limit >= 1 /\ r.raw_limit <= 1000
        THEN /\ r.op = "list"
             /\ r.pagination = [skip |-> r.raw_skip, limit |-> r.raw_limit]
             /\ Len(r.items) =
                    Min(r.raw_limit,
                        Max(0, Cardinality(ListMatching(contacts, r.user_id, r.filters))
                               - r.raw_skip))
        ELSE r.op = "rejected" /\ r.queries = 0

\* A request with limit 1001 is rejected although contacts are stored.
C16_Witness ==
    \E r \in ListRequests :
        /\ r.raw_skip = 0 /\ r.raw_limit = 1001
        /\ r.op = "rejected"
        /\ Cardinality(contacts) >= 2


\* The store before the commit that took it from commit count k to k + 1,
\* given the store after it: the commit's response tells what it wrote.
BeforeCommit(after, k) ==
    LET wrote == {r \in Range(responses) :
                     r.op \in {"create", "remove"} /\ r.at = k /\ r.result # None}
    IN  IF wrote = {} THEN after
        ELSE LET r == CHOOSE w \in wrote : TRUE
             IN  IF r.op = "create" THEN after \ {r.result[1]}
                 ELSE after \cup {r.result[1]}

RECURSIVE CommittedAt(_)
\* The store as committed when the commit count was k.
CommittedAt(k) ==
    IF k >= commits THEN contacts ELSE BeforeCommit(CommittedAt(k + 1), k)

\* The list calls that have just returned.
ReturnedCalls ==
    {r \in Current("list") : "started_at" \in DOMAIN r}

\* C17: a list call is one logical read: the (items, total) pair it returns
\* is a pair the call produces on one of the store states committed between
\* its start and its return, whatever creates and removes run meanwhile.
C17_ListIsOneLogicalRead ==
    \A r \in ReturnedCalls :
        /\ \E k \in r.started_at..commits :
               [items |-> r.items, total |-> r.total]
                   \in ServiceGetAllContacts(CommittedAt(k), r.user_id,
                                             r.pagination, r.filters)
        /\ Len(r.items) <= r.total


\* C18: listContacts, countContacts and upcomingCelebrations are read-only:
\* a step that answers one of them leaves the set of stored contacts and
\* every field of every contact, updated_at included, as it was.
C18_QueriesAreReadOnly ==
    [][ \A r \in Added :
            r.op \in {"list", "count", "birthdays"} => contacts' = contacts ]_vars

\* Upcoming birthdays answered with a contact, the store holding contacts
\* written at different times.
C18_Witness ==
    \E r \in Current("birthdays") :
        /\ Len(r.items) >= 1
        /\ \E c, d \in contacts : c.updated_at # d.updated_at


\* C19: every celebration_date of an upcoming-birthdays response is the
\* celebration date in the year of `today`, also for a contact taken from
\* the part of the window that lies in the next calendar year: a January
\* birthday asked for in December is dated January of today's year.
C19_ReferenceYearIsTodaysYear ==
    \A r \in Current("birthdays") :
        \A i \in 1..Len(r.items) :
            LET item == r.items[i]
            IN  /\ \E move \in BOOLEAN :
                       item.celebration_date =
                           CalcCelebrationDate(item.birthdate, r.today[1], move)
                /\ (r.today[2] = 12 /\ item.birthdate[2] = 1) =>
                       /\ item.celebration_date[1] = r.today[1]
                       /\ item.celebration_date[2] = 1

\* A Jan 2 birthday asked for on 2025-12-28 with the 7-day window is dated
\* 2025-01-02.
C19_Witness ==
    \E r \in Current("birthdays") :
        /\ r.today = <<2025, 12, 28>>
        /\ r.upcoming_days \in {None, Some(7)}
        /\ \E i \in 1..Len(r.items) :
               /\ r.items[i].birthdate = <<1990, 1, 2>>
               /\ r.items[i].celebration_date = <<2025, 1, 2>>


\* a is a later day than b, compared as calendar dates.
LaterDay(a, b) ==
    \/ a[1] > b[1]
    \/ a[1] = b[1] /\ a[2] > b[2]
    \/ a[1] = b[1] /\ a[2] = b[2] /\ a[3] > b[3]

\* C20: a create or update whose body carries a birthdate later than today
\* is rejected and leaves the store unchanged; a body with a birthdate of
\* today or earlier, or a partial body without birthdate, is not rejected.
C20_FutureBirthdateRejected ==
    [][ /\ \A r \in Added :
               /\ r.op = "invalid" =>
                      /\ r.birthdate # None
                      /\ LaterDay(r.birthdate[1], ServerToday)
                      /\ contacts' = contacts
               /\ (r.op \in {"create", "update"} /\ r.result # None) =>
                      ~LaterDay(r.result[1].birthdate, ServerToday)
        /\ \A c \in contacts' : ~LaterDay(c.birthdate, ServerToday) ]_vars

\* An update with a future birthdate was rejected while the store holds a
\* contact born today and one born on a leap day.
C20_Witness ==
    /\ \E r \in Range(responses) : r.op = "invalid" /\ r.request = "update"
    /\ \E c \in contacts : c.birthdate = ServerToday
    /\ \E c \in contacts : c.birthdate = <<2024, 2, 29>>


\* The registrations answered.
Registered == {r \in Range(responses) : r.op = "register"}

\* C21: public registration answers 409 to, and creates no user for, every
\* username that equals one of the listed reserved usernames ignoring case.
C21_ReservedUsernamesRejected ==
    /\ \A r \in Registered :
           Lower(r.username) \in RESERVED_USERNAMES => r.status = 409
    /\ \A u \in users : Lower(u.username) \notin RESERVED_USERNAMES


\* C22: an upcoming-birthdays response never holds more than
\* pagination.limit records, in the same-month and in the wrapping case.
C22_AtMostLimitRecords ==
    \A r \in Current("birthdays") : Len(r.items) <= r.pagination.limit

\* C23: the window ends at today + windowDays for every windowDays the
\* caller supplies, 0 included (then the window is today only), and at
\* today + 7 only when none is supplied: every returned contact has its
\* (month, day) in that window (or is the Feb 29 contact of a window that
\* runs from February of a common year into March).
C23_WindowLengthAsSupplied ==
    \A r \in Current("birthdays") :
        LET n == RequestedWindowDays(r.upcoming_days)
        IN  TouchesAtMostTwoMonths(r.today, n) =>
                \A c \in ItemContacts(r.items) :
                    \/ MonthDayInWindow(c.birthdate, r.today, n)
                    \/ /\ c.birthdate[2] = 2 /\ c.birthdate[3] = 29
                       /\ FebruaryIntoMarch(r.today, n)


\* C24: update and remove of an id that is not in the store return None and
\* leave every stored contact unchanged; remove of a stored id returns the
\* deleted contact and takes it out of the store; an id once removed never
\* comes back, so get, update and remove for it return None from then on.
C24_NotFoundAndRemoval ==
    [][ /\ \A r \in Added :
               r.op \in {"get", "update", "remove"} =>
                   LET found == {c \in contacts :
                                    c.id = r.contact_id /\ c.owner_id = r.user_id}
                   IN  /\ found = {} => (r.result = None /\ contacts' = contacts)
                       /\ (r.op = "remove" /\ found # {}) =>
                              /\ r.result # None
                              /\ found = {r.result[1]}
                              /\ contacts' = contacts \ found
        /\ \A id \in ContactIds :
               (id < next_id /\ ~\E c \in contacts : c.id = id)
                   => ~\E c \in contacts' : c.id = id ]_vars

\* An update of a contact that was created and then removed returns None.
C24_Witness ==
    \E r \in Current("update") :
        /\ r.result = None
        /\ r.contact_id < next_id
        /\ r.user_id = 1
        /\ ~\E c \in contacts : c.id = r.contact_id
        /\ contacts # {}


\* C25: a request made with the token of a user whose is_active is false is
\* answered 403, whatever the role of the user: no contacts or /users/me
\* operation is answered for an inactive user.
C25_InactiveUserRejected ==
    \A r \in Range(responses) :
        r.op \in {"list", "me", "denied"} =>
            \A u \in users :
                (u.id = r.user_id /\ ~u.is_active) =>
                    (r.op = "denied" /\ r.status = 403)

\* C26: every celebration date calc_celebration_date returns is a day from
\* Monday to Friday, for every birthdate, reference year and leap-day policy;
\* the substitute of a Feb 29 birthday is moved off a weekend as well.
C26_CelebrationOnWorkday ==
    \A r \in Celebrations : Zeller(r.result) \in 2..6

\* A Feb 29 birthdate in 2026 under either policy: Feb 28 is a Saturday and
\* Mar 1 a Sunday, and the celebration is Monday Mar 2.
C26_Witness ==
    \E r \in Celebrations :
        /\ r.birthdate[2] = 2 /\ r.birthdate[3] = 29
        /\ r.year = 2026
        /\ Zeller(CelebrationCandidate(r.birthdate, r.year, r.move_feb29_to_feb_28)) \in {0, 1}
        /\ r.result = <<2026, 3, 2>>

\* C27: every celebration_date of an upcoming-birthdays response is today or
\* a later day, also when today is in late December and the window reaches
\* into January.
C27_CelebrationNotBeforeToday ==
    \A r \in Current("birthdays") :
        \A i \in 1..Len(r.items) :
            DateCmp(r.items[i].celebration_date, r.today) >= 0

\* C28: for every window length n >= 1 the caller supplies, however many
\* months the window [today, today + n] covers, the matching set of the
\* upcoming-birthdays query is the set of the user's contacts whose birthdate
\* (month, day) is the (month, day) of some date of the window, and the
\* records of the response are made from such contacts.
C28_WindowOfAnyLength ==
    \A r \in Current("birthdays") :
        (r.upcoming_days # None /\ r.upcoming_days[1] >= 1) =>
            LET n == r.upcoming_days[1]
                matching == UpcomingMatching(contacts, r.user_id, r.today,
                                             EndDate(r.today, r.upcoming_days))
                expected == {c \in contacts :
                                /\ c.owner_id = r.user_id
                                /\ MonthDayInWindow(c.birthdate, r.today, n)}
            IN  /\ matching = expected
                /\ ItemContacts(r.items) \subseteq expected

\* The filter value holds a character that SQL LIKE reads as a wildcard.
HasWildcard(value) == \E i \in 1..Len(value) : value[i] \in {"%", "_"}

\* C29: a filter is matched literally: when a first_name, last_name or email
\* filter holds '%' or '_', every contact of the response holds the filter
\* string, those characters included, in that field (ignoring case).
C29_WildcardsMatchedLiterally ==
    \A r \in Current("list") :
        \A k \in {"first_name", "last_name", "email"} :
            (r.filters[k] # None /\ HasWildcard(r.filters[k][1])) =>
                \A i \in 1..Len(r.items) :
                    ContainsIgnoringCase(r.items[i][k], r.filters[k][1])

\* The create_user calls answered.
CreateUserCalls == {r \in Range(responses) : r.op = "create_user"}

\* C30: under every interleaving of two create_user calls, a call that does
\* not create a user ends with the 409 of a conflict and with no other
\* error, and no two users have the same username or the same email.
C30_ConcurrentCreateUser ==
    /\ \A r \in CreateUserCalls : r.status # 201 => r.status = 409
    /\ \A u, v \in users :
           (u.username = v.username \/ u.email = v.email) => u = v

====
